---- MODULE Spec2Model ----
(***************************************************************************)
(* AgriHealth backend: the request pipeline of the article and contact     *)
(* routes.  One request is in flight at a time; it walks the middleware    *)
(* stack of its route (auth, restrictTo, controller) and ends either in a  *)
(* response written by the controller or in the terminal error stage.      *)
(* Strings that the code takes apart (the Authorization header, trimmed    *)
(* schema strings) are sequences of symbols; everything else is atomic.    *)
(***************************************************************************)
EXTENDS Integers, Sequences, FiniteSets, TLC

\* ------------------------------------------------------------------ bounds
MaxArticles == 2      \* article identifiers handed out by the store
MaxContacts == 1      \* contact messages the store accepts
MaxClock == 1         \* last instant Date.now reaches

\* --------------------------------------------------------------- utilities
Restrict(f, S) == [x \in S |-> f[x]]

Merge(f, g) == [x \in (DOMAIN f) \cup (DOMAIN g) |-> IF x \in DOMAIN g THEN g[x] ELSE f[x]]

Repeat(c, n) == [i \in 1..n |-> c]

\* ------------------------------------------------- String.prototype pieces
\* authorization.startsWith('Bearer'): the literal is the one symbol "Bearer"
StartsWithBearer(s) == Len(s) >= 1 /\ s[1] = "Bearer"

\* index of the first " " in s at or after i, or Len(s)+1
RECURSIVE NextSpace(_, _)
NextSpace(s, i) ==
  IF i > Len(s) THEN Len(s) + 1
  ELSE IF s[i] = " " THEN i
  ELSE NextSpace(s, i + 1)

\* s.split(' '): the pieces between single spaces, empty pieces included
RECURSIVE SplitFrom(_, _)
SplitFrom(s, i) ==
  LET j == NextSpace(s, i)
      piece == SubSeq(s, i, j - 1)
  IN IF j > Len(s) THEN <<piece>> ELSE <<piece>> \o SplitFrom(s, j + 1)

Split(s) == SplitFrom(s, 1)

\* a JS value that may be undefined
Undefined == [defined |-> FALSE, value |-> <<>>]

Defined(v) == [defined |-> TRUE, value |-> v]

\* !token : undefined and the empty string are falsy
Falsy(t) == ~t.defined \/ t.value = <<>>

\* variant: the scheme of the header is not looked at
ExtractToken_AnyScheme(header) ==
  IF header.present
  THEN LET parts == Split(header.value)
       IN IF Len(parts) >= 2 THEN Defined(parts[2]) ELSE Undefined
  ELSE Undefined

\* the token the middleware takes from the request headers
ExtractToken(header) ==
  IF header.present /\ StartsWithBearer(header.value)
  THEN LET parts == Split(header.value)
       IN IF Len(parts) >= 2 THEN Defined(parts[2]) ELSE Undefined
  ELSE Undefined

\* trim: leading and trailing spaces removed
RECURSIVE TrimLeft(_)
TrimLeft(s) == IF s # <<>> /\ Head(s) = " " THEN TrimLeft(Tail(s)) ELSE s

RECURSIVE TrimRight(_)
TrimRight(s) ==
  IF s # <<>> /\ s[Len(s)] = " " THEN TrimRight(SubSeq(s, 1, Len(s) - 1)) ELSE s

Trim(s) == TrimRight(TrimLeft(s))

\* ------------------------------------------------------------------ errors
NoStatus == 0

\* utils/appError: an operational error carrying its own status code
AppError(message, statusCode) ==
  [name |-> "AppError", message |-> message, statusCode |-> statusCode]

\* an error thrown by a library: it carries no status code
LibError(name, message) ==
  [name |-> name, message |-> message, statusCode |-> NoStatus]

NoErr == [name |-> "none", message |-> "", statusCode |-> NoStatus]

\* ------------------------------------------------------------ jsonwebtoken
\* the claims inside each token symbol a client can present
JwtClaims(sym) ==
  CASE sym = "tAdmin"   -> [id |-> "u1", signed |-> TRUE,  expired |-> FALSE]
    [] sym = "tEditor"  -> [id |-> "u2", signed |-> TRUE,  expired |-> FALSE]
    [] sym = "tGone"    -> [id |-> "u3", signed |-> TRUE,  expired |-> FALSE]
    [] sym = "tExpired" -> [id |-> "u1", signed |-> TRUE,  expired |-> TRUE]
    [] sym = "tForged"  -> [id |-> "u1", signed |-> FALSE, expired |-> FALSE]
    [] OTHER            -> [id |-> "none", signed |-> FALSE, expired |-> FALSE]

TokenSymbols == {"tAdmin", "tEditor", "tGone", "tExpired", "tForged"}

\* variant: the expiry of the token is not checked
JwtVerify_NoExpiry(token) ==
  IF Len(token) # 1 \/ token[1] \notin TokenSymbols
  THEN [ok |-> FALSE, id |-> "none", err |-> LibError("JsonWebTokenError", "jwt malformed")]
  ELSE LET c == JwtClaims(token[1])
       IN IF ~c.signed
          THEN [ok |-> FALSE, id |-> "none", err |-> LibError("JsonWebTokenError", "invalid signature")]
          ELSE [ok |-> TRUE, id |-> c.id, err |-> NoErr]

\* jwt.verify(token, secret): the decoded payload, or the error it throws
JwtVerify(token) ==
  IF Len(token) # 1 \/ token[1] \notin TokenSymbols
  THEN [ok |-> FALSE, id |-> "none", err |-> LibError("JsonWebTokenError", "jwt malformed")]
  ELSE LET c == JwtClaims(token[1])
       IN IF ~c.signed
          THEN [ok |-> FALSE, id |-> "none", err |-> LibError("JsonWebTokenError", "invalid signature")]
          ELSE IF c.expired
          THEN [ok |-> FALSE, id |-> "none", err |-> LibError("TokenExpiredError", "jwt expired")]
          ELSE [ok |-> TRUE, id |-> c.id, err |-> NoErr]


\* ------------------------------------------------------------ models/Article
Categories == {"Chemical Safety", "Nutrition", "First Aid", "Mental Health", "Hygiene"}

\* "Francais" stands for the accented spelling of the schema
Languages == {"English", "Francais", "Kinyarwanda", "Swahili"}

TitleMaxLength == 100

\* validator.isURL on the media strings a client sends
IsURL(s) == s \in {"http://img"}

RequiredFields == {"title", "content", "category", "readTime", "language"}

TrimmedFields == {"title", "content"}

SchemaFields == RequiredFields \cup {"imageUrl", "externalLink"}

\* casting by the schema: paths outside the schema are dropped, trim setters run
CastArticle(body) ==
  [f \in (DOMAIN body) \cap SchemaFields |->
     IF f \in TrimmedFields THEN Trim(body[f]) ELSE body[f]]

\* variant: the enum validators are missing
PathValid_NoEnum(f, v) ==
  CASE f = "title"        -> v # <<>> /\ Len(v) <= TitleMaxLength
    [] f = "content"      -> v # <<>>
    [] f = "imageUrl"     -> IsURL(v)
    [] f = "externalLink" -> IsURL(v)
    [] OTHER              -> TRUE

\* the validators of one path on a cast value
PathValid(f, v) ==
  CASE f = "title"        -> v # <<>> /\ Len(v) <= TitleMaxLength
    [] f = "content"      -> v # <<>>
    [] f = "category"     -> v \in Categories
    [] f = "readTime"     -> TRUE
    [] f = "language"     -> v \in Languages
    [] f = "imageUrl"     -> IsURL(v)
    [] f = "externalLink" -> IsURL(v)
    [] OTHER              -> TRUE

\* document validation on save: every required path present, every set path valid
InvalidPathsOnCreate(doc) ==
  (RequiredFields \ DOMAIN doc) \cup {f \in DOMAIN doc : ~PathValid(f, doc[f])}

\* variant: the update is sent without runValidators
InvalidPathsOnUpdate_Off(upd) == {}

\* update validators (runValidators: true) look only at the paths in the update
InvalidPathsOnUpdate(upd) == {f \in DOMAIN upd : ~PathValid(f, upd[f])}

\* the error a failed document or update validation throws
ValidationError == LibError("ValidationError", "Validation failed: Please provide a valid value")

\* ------------------------------------------------------------ models/Contact
ContactFields == {"name", "email", "subject", "message"}

CastContact(body) == Restrict(body, (DOMAIN body) \cap ContactFields)

InvalidContactPaths(doc) == ContactFields \ DOMAIN doc

\* ------------------------------------------------------------- persistence
\* null, as a document with no identity
Null == [_id |-> "none", role |-> "none"]

MongoNetworkError == LibError("MongoNetworkError", "connect ECONNREFUSED")

\* Model.findById on a collection held as a function from _id to document
FindById(coll, id) ==
  IF id \in DOMAIN coll THEN [found |-> TRUE, doc |-> coll[id]]
  ELSE [found |-> FALSE, doc |-> Null]

\* variant: the filter of the delete is lost
DeleteById_All(coll, id) == Restrict(coll, {})

\* the collection after deleteOne on an id
DeleteById(coll, id) == Restrict(coll, (DOMAIN coll) \ {id})

\* variant: the update replaces the document instead of setting the supplied paths
UpdateById_Overwrite(coll, id, upd) == [coll EXCEPT ![id] = Merge([_id |-> id], upd)]

\* the collection after $set of the update on the document with that id
UpdateById(coll, id, upd) == [coll EXCEPT ![id] = Merge(coll[id], upd)]

\* a new document: the cast payload with the identifier and the createdAt default
NewArticle(doc, id, t) == Merge(doc, [_id |-> id, createdAt |-> t])


\* ---------------------------------------------------------------- responses
NoBody == [none |-> TRUE]

NoRes == [status |-> 0, body |-> NoBody]

\* res.status(code).json(body): a 204 or 304 response is sent without its body
Json(code, body) ==
  [status |-> code, body |-> IF code \in {204, 304} THEN NoBody ELSE body]

\* ------------------------------------------------------------------ routing
ArticleRoutes ==
  {"getAllArticles", "getArticle", "createArticle", "updateArticle", "deleteArticle"}

Routes == ArticleRoutes \cup {"postContact"}

\* routes/articleRoutes: the middleware stack of each article route
ArticleRouter(route) ==
  CASE route = "getAllArticles" -> <<"getAllArticles">>
    [] route = "getArticle"    -> <<"getArticle">>
    [] route = "createArticle" -> <<"auth", "restrictTo", "createArticle">>
    [] route = "updateArticle" -> <<"auth", "restrictTo", "updateArticle">>
    [] route = "deleteArticle" -> <<"auth", "restrictTo", "deleteArticle">>

\* the roles restrictTo is given on the write routes
AllowedRoles(route) == {"admin"}

\* variant: the article controllers are mounted without the router's middleware
Stack_Bare(route) == <<route>>

\* app.use('/api/articles', articleRoutes); app.use('/api/contact', contactRoutes)
Stack(route) == IF route = "postContact" THEN <<"postContact">> ELSE ArticleRouter(route)

\* ------------------------------------------------------------------- inputs
\* the two entry points: the app with the error middleware and the legacy one
Apps == {"app", "legacy"}

\* req.user before the auth middleware has set it
NoUser == Null

\* the User collection: u3 held an account once, the tokens outlive it
SeedUsers ==
  [u \in {"u1", "u2"} |-> [_id |-> u, role |-> IF u = "u1" THEN "admin" ELSE "editor"]]

AbsentHeader == [present |-> FALSE, value |-> <<>>]

HeaderValues ==
  { <<"Basic", " ", "tAdmin">>, <<"Bearer">>, <<"Bearer", " ">>,
    <<"Bearer", " ", " ", "tAdmin">>, <<"Bearer", " ", "junk">>,
    <<"Bearer", "x", " ", "tAdmin">> }
  \cup { <<"Bearer", " ", t>> : t \in TokenSymbols }

Headers == {AbsentHeader} \cup {[present |-> TRUE, value |-> v] : v \in HeaderValues}

ArticleIds == 1..MaxArticles

BasePayload ==
  [title |-> <<"a">>, content |-> <<"c">>, category |-> "Nutrition",
   readTime |-> 5, language |-> "English"]

LongTitle == Repeat("a", TitleMaxLength + 1)

\* bodies of POST /articles: complete payloads and one-field violations
CreatePayloads ==
  { BasePayload,
    Merge([BasePayload EXCEPT !.title = <<" ", "b", " ">>],
          [imageUrl |-> "http://img", role |-> "admin"]) }
  \cup { Restrict(BasePayload, RequiredFields \ {f}) : f \in RequiredFields }
  \cup { [BasePayload EXCEPT !.category = "Bogus"],
         [BasePayload EXCEPT !.language = "Klingon"],
         [BasePayload EXCEPT !.title = <<" ">>],
         [BasePayload EXCEPT !.title = LongTitle],
         Merge(BasePayload, [imageUrl |-> "not a url"]) }

\* bodies of PATCH /articles/:id: partial payloads
UpdatePayloads ==
  { Restrict(BasePayload, {}), [category |-> "Hygiene"], [category |-> "Bogus"],
    [title |-> <<" ">>], [category |-> "Hygiene", role |-> "admin"], [externalLink |-> "not a url"] }

ContactPayload == [name |-> "A", email |-> "a@b.com", subject |-> "Hi", message |-> "Test"]

ContactPayloads ==
  { ContactPayload, Merge(ContactPayload, [admin |-> "yes"]) }
  \cup { Restrict(ContactPayload, ContactFields \ {f}) : f \in ContactFields }

NoBodyRead == [unread |-> TRUE]

\* req.query of GET /articles: category and language, each absent, empty or a string
Queries ==
  { Restrict(BasePayload, {}), [category |-> "Nutrition"], [category |-> ""],
    [category |-> "Hygiene", language |-> "English"], [language |-> "Swahili"],
    [category |-> "Bogus", language |-> ""] }

NoQuery == [unread |-> TRUE]

\* --------------------------------------------------------- middleware/auth
\* next()
PassOn == [out |-> "next", err |-> NoErr]

\* next(err)
PassErr(e) == [out |-> "error", err |-> e]

\* variant: the result of the lookup is not tested
StillExists_Always(currentUser) == TRUE

\* if (!currentUser): the account of the token is still in the collection
StillExists(currentUser) == currentUser.found

\* the auth middleware: what it hands to next and the user it attaches
AuthOutcome(header, userColl, dbOk) ==
  LET token == ExtractToken(header)
  IN IF Falsy(token)
     THEN [hand |-> PassErr(AppError("You are not logged in! Please log in to get access.", 401)),
           user |-> NoUser]
     ELSE LET decoded == JwtVerify(token.value)
          IN IF ~decoded.ok THEN [hand |-> PassErr(decoded.err), user |-> NoUser]
             ELSE IF ~dbOk THEN [hand |-> PassErr(MongoNetworkError), user |-> NoUser]
             ELSE LET currentUser == FindById(userColl, decoded.id)
                  IN IF ~StillExists(currentUser)
                     THEN [hand |-> PassErr(AppError("The user belonging to this token no longer exists.", 401)),
                           user |-> NoUser]
                     ELSE [hand |-> PassOn, user |-> currentUser.doc]

\* variant: the test of the role is inverted
RestrictOutcome_Inverted(roles, user) ==
  IF user.role \in roles
  THEN PassErr(AppError("You do not have permission to perform this action", 403))
  ELSE PassOn

\* restrictTo(...roles): the role guard
RestrictOutcome(roles, user) ==
  IF user.role \notin roles
  THEN PassErr(AppError("You do not have permission to perform this action", 403))
  ELSE PassOn

\* ------------------------------------------- controllers/articleController
Respond(r) == [out |-> "respond", err |-> NoErr, res |-> r]

Raise(e) == [out |-> "error", err |-> e, res |-> NoRes]

\* utils/catchAsync: a rejection of the controller's promise goes to next
CatchAsync(e) == Raise(e)

Envelope(doc) == [status |-> "success", data |-> [article |-> doc]]

NotFound == AppError("No article found with that ID", 404)

\* variant: the language of the query is never put in the filter
ListFilter_CategoryOnly(query) ==
  Restrict(query, {f \in (DOMAIN query) \cap {"category"} : query[f] # ""})

\* if (category) filter.category = category; if (language) filter.language = language
ListFilter(query) ==
  Restrict(query, {f \in (DOMAIN query) \cap {"category", "language"} : query[f] # ""})

\* the documents Article.find(filter) matches: equality on every path of the filter
Matching(coll, filter) ==
  {id \in DOMAIN coll : \A f \in DOMAIN filter : f \in DOMAIN coll[id] /\ coll[id][f] = filter[f]}

\* the orders of a set of identifiers
Orders(ids) ==
  {s \in [1..Cardinality(ids) -> ids] : \A i, j \in 1..Cardinality(ids) : s[i] = s[j] => i = j}

\* variant: sort('createdAt'), the sign of the sort key lost
SortedByCreatedAtDesc_Asc(coll, ids) ==
  {s \in Orders(ids) :
     \A i, j \in 1..Len(s) : i < j => coll[s[i]].createdAt <= coll[s[j]].createdAt}

\* sort('-createdAt'): later documents first, documents of one instant in any order
SortedByCreatedAtDesc(coll, ids) ==
  {s \in Orders(ids) :
     \A i, j \in 1..Len(s) : i < j => coll[s[i]].createdAt >= coll[s[j]].createdAt}

\* Article.find(filter).sort('-createdAt'), answered with its length
GetAllOutcome(coll, query, order, dbOk) ==
  IF ~dbOk THEN CatchAsync(MongoNetworkError)
  ELSE LET found == [i \in 1..Len(order) |-> coll[order[i]]]
       IN Respond(Json(200, [status |-> "success", results |-> Len(found),
                             data |-> [articles |-> found]]))

\* variant: the query is not narrowed to the requested identifier
GetOutcome_FindOne(coll, id, dbOk) ==
  IF ~dbOk THEN CatchAsync(MongoNetworkError)
  ELSE IF DOMAIN coll = {} THEN Raise(NotFound)
  ELSE Respond(Json(200, Envelope(coll[CHOOSE i \in DOMAIN coll : \A j \in DOMAIN coll : i <= j])))

\* variant: the result of the lookup is not tested before it is sent
GetOutcome_NoNullCheck(coll, id, dbOk) ==
  IF ~dbOk THEN CatchAsync(MongoNetworkError)
  ELSE Respond(Json(200, Envelope(FindById(coll, id).doc)))

\* Article.findById(req.params.id), 404 when there is none
GetOutcome(coll, id, dbOk) ==
  IF ~dbOk THEN CatchAsync(MongoNetworkError)
  ELSE LET article == FindById(coll, id)
       IN IF ~article.found THEN Raise(NotFound)
          ELSE Respond(Json(200, Envelope(article.doc)))

\* Article.create(req.body): validation, then the insert
CreateOutcome(coll, body, id, t, dbOk) ==
  LET doc == CastArticle(body)
  IN IF InvalidPathsOnCreate(doc) # {} THEN [hand |-> CatchAsync(ValidationError), coll |-> coll]
     ELSE IF ~dbOk THEN [hand |-> CatchAsync(MongoNetworkError), coll |-> coll]
     ELSE LET newArticle == NewArticle(doc, id, t)
          IN [hand |-> Respond(Json(201, Envelope(newArticle))),
              coll |-> (id :> newArticle) @@ coll]

\* Article.findByIdAndUpdate(id, req.body, {new: true, runValidators: true})
UpdateOutcome(coll, id, body, dbOk) ==
  LET upd == CastArticle(body)
  IN IF InvalidPathsOnUpdate(upd) # {} THEN [hand |-> CatchAsync(ValidationError), coll |-> coll]
     ELSE IF ~dbOk THEN [hand |-> CatchAsync(MongoNetworkError), coll |-> coll]
     ELSE IF id \notin DOMAIN coll THEN [hand |-> Raise(NotFound), coll |-> coll]
     ELSE LET after == UpdateById(coll, id, upd)
          IN [hand |-> Respond(Json(200, Envelope(after[id]))), coll |-> after]

\* variant: the result of findByIdAndDelete is not tested before the 204
DeleteOutcome_NoNullCheck(coll, id, dbOk) ==
  IF ~dbOk THEN [hand |-> CatchAsync(MongoNetworkError), coll |-> coll]
  ELSE [hand |-> Respond(Json(204, [status |-> "success", data |-> NoBody])),
        coll |-> DeleteById(coll, id)]

\* Article.findByIdAndDelete(id)
DeleteOutcome(coll, id, dbOk) ==
  IF ~dbOk THEN [hand |-> CatchAsync(MongoNetworkError), coll |-> coll]
  ELSE IF id \notin DOMAIN coll THEN [hand |-> Raise(NotFound), coll |-> coll]
  ELSE [hand |-> Respond(Json(204, [status |-> "success", data |-> NoBody])),
        coll |-> DeleteById(coll, id)]

\* ------------------------------------------------------ the contact routes
\* variant: a rejected insert empties the collection
ContactInsert_DropOnError(msgs, body, dbOk) ==
  LET doc == CastContact(body)
  IN IF InvalidContactPaths(doc) # {} THEN [ok |-> FALSE, err |-> ValidationError, msgs |-> <<>>]
     ELSE IF ~dbOk THEN [ok |-> FALSE, err |-> MongoNetworkError, msgs |-> msgs]
     ELSE [ok |-> TRUE, err |-> NoErr,
           msgs |-> Append(msgs, Merge(doc, [_id |-> Len(msgs) + 1]))]

\* what Contact.create / save does: the stored messages after, or the error
ContactInsert(msgs, body, dbOk) ==
  LET doc == CastContact(body)
  IN IF InvalidContactPaths(doc) # {} THEN [ok |-> FALSE, err |-> ValidationError, msgs |-> msgs]
     ELSE IF ~dbOk THEN [ok |-> FALSE, err |-> MongoNetworkError, msgs |-> msgs]
     ELSE [ok |-> TRUE, err |-> NoErr,
           msgs |-> Append(msgs, Merge(doc, [_id |-> Len(msgs) + 1]))]

\* the router that passes req.body to Contact.create
ContactCreateOutcome(msgs, body, dbOk) ==
  LET w == ContactInsert(msgs, body, dbOk)
  IN IF w.ok
     THEN [res |-> Json(201, [message |-> "Message received!", data |-> w.msgs[Len(w.msgs)]]),
           msgs |-> w.msgs, err |-> w.err]
     ELSE [res |-> Json(400, [error |-> w.err.message]), msgs |-> w.msgs, err |-> w.err]

\* variant: one of the four fields is not picked
PickContact_NoSubject(body) == Restrict(body, (DOMAIN body) \cap {"name", "email", "message"})

\* const { name, email, subject, message } = req.body
PickContact(body) == Restrict(body, (DOMAIN body) \cap {"name", "email", "subject", "message"})

\* the router that picks name, email, subject, message and saves a new Contact
ContactSaveOutcome(msgs, body, dbOk) ==
  LET w == ContactInsert(msgs, PickContact(body), dbOk)
  IN IF w.ok
     THEN [res |-> Json(201, [message |-> "Thank you for your message! We will get back to you soon."]),
           msgs |-> w.msgs, err |-> w.err]
     ELSE [res |-> Json(500, [message |-> "Something went wrong. Please try again later."]),
           msgs |-> w.msgs, err |-> w.err]

\* --------------------------------------------------------- terminal stages
\* middleware/error: the failure kind of an error, as a status code
ErrorStatus(e) ==
  CASE e.name = "AppError"                                  -> e.statusCode
    [] e.name \in {"JsonWebTokenError", "TokenExpiredError"} -> 401
    [] e.name = "ValidationError"                           -> 400
    [] OTHER                                                -> 500

\* middleware/error: the one error body of the application
GlobalErrorHandler(e) ==
  LET code == ErrorStatus(e)
  IN Json(code,
          [status |-> IF code < 500 THEN "fail" ELSE "error",
           message |-> CASE e.name = "AppError" -> e.message
                         [] e.name \in {"JsonWebTokenError", "TokenExpiredError"} ->
                              "Invalid or expired token. Please log in again."
                         [] e.name = "ValidationError" -> "Invalid input data"
                         [] OTHER -> "Something went wrong"])

\* no error middleware is mounted: Express answers with its default handler
FinalHandler(e) ==
  Json(IF e.statusCode >= 400 /\ e.statusCode < 600 THEN e.statusCode ELSE 500,
       [stack |-> e.message])


\* -------------------------------------------------------------------- state
VARIABLES
  users,        \* User collection: _id -> document
  articles,     \* Article collection: _id -> document
  contacts,     \* Contact collection, in insertion order
  nextId,       \* the next article identifier the store hands out
  now,          \* Date.now
  pc,           \* "idle", "run" (in the stack), "error" (next(err) called), "done"
  req,          \* the request in flight; params, body and the outcome of the
                \* persistence call are filled in when the code reads them
  idx,          \* position in the middleware stack of the route
  err,          \* the error handed to next(err)
  res,          \* the response sent
  trace,        \* the stages this request went through, with what each handed on
  pre,          \* the collections when the request arrived
  created       \* _id -> the record the create response returned, until a write to that _id

vars == <<users, articles, contacts, nextId, now,
          pc, req, idx, err, res, trace, pre, created>>

store == <<users, articles, contacts, nextId, now>>

NoReq ==
  [app |-> "none", route |-> "none", header |-> AbsentHeader, id |-> 0, user |-> NoUser,
   body |-> NoBodyRead, query |-> NoQuery, dbOk |-> TRUE]

Empty == [x \in {} |-> x]

Init ==
  /\ users = SeedUsers
  /\ articles = Empty
  /\ contacts = <<>>
  /\ nextId = 1
  /\ now = 0
  /\ pc = "idle"
  /\ req = NoReq
  /\ idx = 0
  /\ err = NoErr
  /\ res = NoRes
  /\ trace = <<>>
  /\ pre = [articles |-> Empty, contacts |-> <<>>]
  /\ created = Empty

\* the stage the request stands at
Stage == IF pc = "run" THEN Stack(req.route)[idx] ELSE "none"

Visit(stage, out) == Append(trace, [stage |-> stage, out |-> out])

\* a request arrives at an entry point and enters the stack of its route
Receive(entry, route, header) ==
  /\ pc \in {"idle", "done"}
  /\ route = "createArticle" => nextId <= MaxArticles
  /\ req' = [NoReq EXCEPT !.app = entry, !.route = route, !.header = header]
  /\ pc' = "run"
  /\ idx' = 1
  /\ err' = NoErr
  /\ res' = NoRes
  /\ trace' = <<>>
  /\ pre' = [articles |-> articles, contacts |-> contacts]
  /\ UNCHANGED <<store, created>>

\* a middleware hands on: next() moves down the stack, next(err) leaves it
HandOn(stage, hand) ==
  /\ trace' = Visit(stage, hand.out)
  /\ err' = hand.err
  /\ IF hand.out = "next"
     THEN pc' = "run" /\ idx' = idx + 1
     ELSE pc' = "error" /\ idx' = idx
  /\ res' = res

\* a controller ends: it sent a response, or it handed an error to next
Finish(stage, hand) ==
  /\ trace' = Visit(stage, hand.out)
  /\ err' = hand.err
  /\ res' = hand.res
  /\ pc' = IF hand.out = "respond" THEN "done" ELSE "error"
  /\ idx' = idx

\* the persistence call of the stage was made and did not fail
DbOk(e) == e # MongoNetworkError

Auth(dbOk) ==
  /\ Stage = "auth"
  /\ LET o == AuthOutcome(req.header, users, dbOk)
     IN /\ req' = [req EXCEPT !.user = o.user, !.dbOk = DbOk(o.hand.err)]
        /\ HandOn("auth", o.hand)
  /\ UNCHANGED <<store, pre, created>>

RestrictTo ==
  /\ Stage = "restrictTo"
  /\ HandOn("restrictTo", RestrictOutcome(AllowedRoles(req.route), req.user))
  /\ UNCHANGED <<store, req, pre, created>>

GetAllArticles(query, order, dbOk) ==
  /\ Stage = "getAllArticles"
  /\ order \in SortedByCreatedAtDesc(articles, Matching(articles, ListFilter(query)))
  /\ LET hand == GetAllOutcome(articles, query, order, dbOk)
     IN /\ req' = [req EXCEPT !.query = query, !.dbOk = DbOk(hand.err)]
        /\ Finish("getAllArticles", hand)
  /\ UNCHANGED <<store, pre, created>>

GetArticle(id, dbOk) ==
  /\ Stage = "getArticle"
  /\ LET hand == GetOutcome(articles, id, dbOk)
     IN /\ req' = [req EXCEPT !.id = id, !.dbOk = DbOk(hand.err)]
        /\ Finish("getArticle", hand)
  /\ UNCHANGED <<store, pre, created>>

\* Date.now at the insert: the instant of the last reading or a later one
CreateArticle(body, t, dbOk) ==
  /\ Stage = "createArticle"
  /\ t >= now
  /\ LET o == CreateOutcome(articles, body, nextId, t, dbOk)
         sent == o.hand.out = "respond"
     IN /\ req' = [req EXCEPT !.body = body, !.dbOk = DbOk(o.hand.err)]
        /\ Finish("createArticle", o.hand)
        /\ articles' = o.coll
        /\ nextId' = IF sent THEN nextId + 1 ELSE nextId
        /\ now' = IF sent THEN t ELSE now
        /\ created' = IF sent THEN (nextId :> o.hand.res.body.data.article) @@ created
                      ELSE created
  /\ UNCHANGED <<users, contacts, pre>>

UpdateArticle(id, body, dbOk) ==
  /\ Stage = "updateArticle"
  /\ LET o == UpdateOutcome(articles, id, body, dbOk)
     IN /\ req' = [req EXCEPT !.id = id, !.body = body, !.dbOk = DbOk(o.hand.err)]
        /\ Finish("updateArticle", o.hand)
        /\ articles' = o.coll
        /\ created' = IF o.hand.out = "respond"
                      THEN Restrict(created, (DOMAIN created) \ {id})
                      ELSE created
  /\ UNCHANGED <<users, contacts, nextId, now, pre>>

DeleteArticle(id, dbOk) ==
  /\ Stage = "deleteArticle"
  /\ LET o == DeleteOutcome(articles, id, dbOk)
     IN /\ req' = [req EXCEPT !.id = id, !.dbOk = DbOk(o.hand.err)]
        /\ Finish("deleteArticle", o.hand)
        /\ articles' = o.coll
        /\ created' = IF o.hand.out = "respond"
                      THEN Restrict(created, (DOMAIN created) \ {id})
                      ELSE created
  /\ UNCHANGED <<users, contacts, nextId, now, pre>>

\* POST /api/contact on the router that calls Contact.create(req.body)
ContactCreate(body, dbOk) ==
  /\ Stage = "postContact"
  /\ LET o == ContactCreateOutcome(contacts, body, dbOk)
     IN /\ req' = [req EXCEPT !.body = body, !.dbOk = DbOk(o.err)]
        /\ Finish("contactCreate", Respond(o.res))
        /\ Len(o.msgs) <= MaxContacts
        /\ contacts' = o.msgs
  /\ UNCHANGED <<users, articles, nextId, now, pre, created>>

\* POST /api/contact on the router that saves a new Contact
ContactSave(body, dbOk) ==
  /\ Stage = "postContact"
  /\ LET o == ContactSaveOutcome(contacts, body, dbOk)
     IN /\ req' = [req EXCEPT !.body = body, !.dbOk = DbOk(o.err)]
        /\ Finish("contactSave", Respond(o.res))
        /\ Len(o.msgs) <= MaxContacts
        /\ contacts' = o.msgs
  /\ UNCHANGED <<users, articles, nextId, now, pre, created>>

\* app.use(require('./middleware/error')): the error stage of the app
ErrorMiddleware ==
  /\ pc = "error"
  /\ req.app = "app"
  /\ res' = GlobalErrorHandler(err)
  /\ trace' = Visit("error", "respond")
  /\ pc' = "done"
  /\ UNCHANGED <<store, req, idx, err, pre, created>>

\* the legacy entry point mounts no error stage
DefaultErrorHandler ==
  /\ pc = "error"
  /\ req.app = "legacy"
  /\ res' = FinalHandler(err)
  /\ trace' = Visit("finalhandler", "respond")
  /\ pc' = "done"
  /\ UNCHANGED <<store, req, idx, err, pre, created>>

Protected(route) == "auth" \in {Stack(route)[i] : i \in 1..Len(Stack(route))}

Next ==
  \/ \E entry \in Apps, route \in Routes :
       \E header \in IF Protected(route) THEN Headers ELSE {AbsentHeader} :
         Receive(entry, route, header)
  \/ \E dbOk \in BOOLEAN : Auth(dbOk)
  \/ RestrictTo
  \/ \E query \in Queries, dbOk \in BOOLEAN :
       \E order \in Orders(Matching(articles, ListFilter(query))) :
         GetAllArticles(query, order, dbOk)
  \/ \E id \in ArticleIds, dbOk \in BOOLEAN : GetArticle(id, dbOk)
  \/ \E body \in CreatePayloads, t \in 0..MaxClock, dbOk \in BOOLEAN : CreateArticle(body, t, dbOk)
  \/ \E id \in ArticleIds, body \in UpdatePayloads, dbOk \in BOOLEAN : UpdateArticle(id, body, dbOk)
  \/ \E id \in ArticleIds, dbOk \in BOOLEAN : DeleteArticle(id, dbOk)
  \/ \E body \in ContactPayloads, dbOk \in BOOLEAN : ContactCreate(body, dbOk)
  \/ \E body \in ContactPayloads, dbOk \in BOOLEAN : ContactSave(body, dbOk)
  \/ ErrorMiddleware
  \/ DefaultErrorHandler

Spec == Init /\ [][Next]_vars

\* ------------------------------------------------ requests served concurrently
\* Each request is served on its own: its position, request object, error and
\* response are its own, and the store is all the requests share. Under this
\* specification pc, req, idx, err, res and trace hold one value per request.
\* A step holds at most one operation of the store, which the store runs
\* atomically on its document; what a stage does after it is local.
MaxProcs == 3

Procs == 1..MaxProcs

\* the Authorization headers of the clients that delete at the same time
DeleteHeaders ==
  { AbsentHeader,
    [present |-> TRUE, value |-> <<"Bearer", " ", "tAdmin">>],
    [present |-> TRUE, value |-> <<"Bearer", " ", "tEditor">>] }

\* the collections the application can hold when the deletes arrive
SeededArticles ==
  { [id \in S |-> NewArticle(CastArticle(BasePayload), id, 0)] : S \in (SUBSET ArticleIds) \ {{}} }

ConcInit ==
  /\ users = SeedUsers
  /\ articles \in SeededArticles
  /\ contacts = <<>>
  /\ nextId = MaxArticles + 1
  /\ now = 0
  /\ pc = [p \in Procs |-> "idle"]
  /\ req = [p \in Procs |-> NoReq]
  /\ idx = [p \in Procs |-> 0]
  /\ err = [p \in Procs |-> NoErr]
  /\ res = [p \in Procs |-> NoRes]
  /\ trace = [p \in Procs |-> <<>>]
  /\ pre = [articles |-> articles, contacts |-> contacts]
  /\ created = Empty

\* the stage request p stands at
StageOf(p) == IF pc[p] = "run" THEN Stack(req[p].route)[idx[p]] ELSE "none"

\* a DELETE /articles/:id arrives while others are in flight
ConcReceive(p, entry, header) ==
  /\ pc[p] = "idle"
  /\ req' = [req EXCEPT ![p] = [NoReq EXCEPT !.app = entry, !.route = "deleteArticle",
                                             !.header = header]]
  /\ pc' = [pc EXCEPT ![p] = "run"]
  /\ idx' = [idx EXCEPT ![p] = 1]
  /\ UNCHANGED <<store, err, res, trace, pre, created>>

\* request p hands on: next() moves down its stack, next(err) leaves it
ConcHandOn(p, stage, hand) ==
  /\ trace' = [trace EXCEPT ![p] = Append(@, [stage |-> stage, out |-> hand.out])]
  /\ err' = [err EXCEPT ![p] = hand.err]
  /\ IF hand.out = "next"
     THEN pc' = [pc EXCEPT ![p] = "run"] /\ idx' = [idx EXCEPT ![p] = @ + 1]
     ELSE pc' = [pc EXCEPT ![p] = "error"] /\ idx' = idx
  /\ res' = res

ConcAuth(p, dbOk) ==
  /\ StageOf(p) = "auth"
  /\ LET o == AuthOutcome(req[p].header, users, dbOk)
     IN /\ req' = [req EXCEPT ![p].user = o.user, ![p].dbOk = DbOk(o.hand.err)]
        /\ ConcHandOn(p, "auth", o.hand)
  /\ UNCHANGED <<store, pre, created>>

ConcRestrictTo(p) ==
  /\ StageOf(p) = "restrictTo"
  /\ ConcHandOn(p, "restrictTo", RestrictOutcome(AllowedRoles(req[p].route), req[p].user))
  /\ UNCHANGED <<store, req, pre, created>>

\* findByIdAndDelete of request p on the collection as it is at that moment
ConcDeleteArticle(p, id, dbOk) ==
  /\ StageOf(p) = "deleteArticle"
  /\ LET o == DeleteOutcome(articles, id, dbOk)
     IN /\ req' = [req EXCEPT ![p].id = id, ![p].dbOk = DbOk(o.hand.err)]
        /\ trace' = [trace EXCEPT ![p] = Append(@, [stage |-> "deleteArticle", out |-> o.hand.out])]
        /\ err' = [err EXCEPT ![p] = o.hand.err]
        /\ res' = [res EXCEPT ![p] = o.hand.res]
        /\ pc' = [pc EXCEPT ![p] = IF o.hand.out = "respond" THEN "done" ELSE "error"]
        /\ articles' = o.coll
  /\ UNCHANGED <<users, contacts, nextId, now, idx, pre, created>>

\* the terminal stage of request p: the error middleware, or Express's own
ConcErrorStage(p) ==
  /\ pc[p] = "error"
  /\ res' = [res EXCEPT ![p] = IF req[p].app = "app" THEN GlobalErrorHandler(err[p])
                                                      ELSE FinalHandler(err[p])]
  /\ trace' = [trace EXCEPT ![p] = Append(@, [stage |-> IF req[p].app = "app" THEN "error"
                                                         ELSE "finalhandler",
                                              out |-> "respond"])]
  /\ pc' = [pc EXCEPT ![p] = "done"]
  /\ UNCHANGED <<store, req, idx, err, pre, created>>

ConcNext ==
  \/ \E p \in Procs, entry \in Apps, header \in DeleteHeaders : ConcReceive(p, entry, header)
  \/ \E p \in Procs, dbOk \in BOOLEAN : ConcAuth(p, dbOk)
  \/ \E p \in Procs : ConcRestrictTo(p)
  \/ \E p \in Procs, id \in ArticleIds, dbOk \in BOOLEAN : ConcDeleteArticle(p, id, dbOk)
  \/ \E p \in Procs : ConcErrorStage(p)

ConcSpec == ConcInit /\ [][ConcNext]_vars



\* =================================================================== claims
WriteRoutes == {"createArticle", "updateArticle", "deleteArticle"}

Controllers ==
  {"getAllArticles", "getArticle", "createArticle", "updateArticle", "deleteArticle", "contactCreate", "contactSave"}

\* a controller has run for the request in flight
HandlerReached == \E i \in 1..Len(trace) : trace[i].stage \in Controllers

\* the records are those the request found
StoreUnchanged == articles = pre.articles /\ contacts = pre.contacts

\* the stage went through and handed on with next()
Passed(i, stage) == Len(trace) >= i /\ trace[i] = [stage |-> stage, out |-> "next"]

SpaceIndexes(v) == {i \in 1..Len(v) : v[i] = " "}

FirstSpace(v) == CHOOSE i \in SpaceIndexes(v) : \A j \in SpaceIndexes(v) : i <= j

\* no Authorization header, one that does not start with Bearer, or one with
\* nothing after the space
NoBearerCredential(h) ==
  \/ ~h.present
  \/ h.value = <<>>
  \/ h.value[1] # "Bearer"
  \/ SpaceIndexes(h.value) = {}
  \/ FirstSpace(h.value) = Len(h.value)
  \/ h.value[FirstSpace(h.value) + 1] = " "

\* C1: a request to an article write route without a bearer credential never
\* reaches a controller, leaves the records as they were, and ends in 401
C1_NoCredential401 ==
  (pc # "idle" /\ req.route \in WriteRoutes /\ NoBearerCredential(req.header)) =>
     /\ ~HandlerReached
     /\ StoreUnchanged
     /\ pc = "done" => res.status = 401

C1_Witness ==
  /\ pc = "done"
  /\ req.route = "createArticle"
  /\ req.header = [present |-> TRUE, value |-> <<"Bearer", " ">>]
  /\ res.status = 401

\* C2: behind the auth middleware, the role guard ends a request whose user's
\* role is outside the allow-set in 403 before any controller; a role inside
\* the allow-set goes on to the next stage with the request and the records
\* untouched
C2_GuardStep ==
  Stage = "restrictTo" =>
     /\ req' = req
     /\ articles' = articles /\ contacts' = contacts /\ users' = users
     /\ IF req.user.role \in AllowedRoles(req.route)
        THEN pc' = "run" /\ idx' = idx + 1 /\ err' = NoErr /\ res' = res
        ELSE pc' = "error" /\ err'.statusCode = 403

C2_Forbidden ==
  (pc = "done" /\ Passed(1, "auth") /\ req.user.role \notin AllowedRoles(req.route)) =>
     res.status = 403 /\ ~HandlerReached

C2_RoleGuard == [][C2_GuardStep]_vars /\ []C2_Forbidden

C2_Witness ==
  /\ pc = "done"
  /\ Passed(1, "auth")
  /\ req.user.role = "editor"
  /\ res.status = 403

BearerToken(h) ==
  LET v == h.value
      a == FirstSpace(v)
      later == {i \in SpaceIndexes(v) : i > a}
      b == IF later = {} THEN Len(v) + 1
           ELSE CHOOSE i \in later : \A j \in later : i <= j
  IN SubSeq(v, a + 1, b - 1)

HasBearerToken(h) == ~NoBearerCredential(h)

\* the token is one the server signed and it has not expired
GoodToken(t) ==
  /\ Len(t) = 1
  /\ t[1] \in TokenSymbols
  /\ JwtClaims(t[1]).signed
  /\ ~JwtClaims(t[1]).expired

C5_UserGone401 ==
  (pc # "idle" /\ req.route \in WriteRoutes /\ Len(trace) >= 1 /\ req.dbOk
     /\ HasBearerToken(req.header) /\ GoodToken(BearerToken(req.header))
     /\ JwtClaims(BearerToken(req.header)[1]).id \notin DOMAIN users) =>
     /\ trace[1] = [stage |-> "auth", out |-> "error"]
     /\ req.user = NoUser
     /\ ~HandlerReached
     /\ StoreUnchanged
     /\ pc = "done" => res.status = 401

C5_Witness ==
  /\ pc = "done"
  /\ req.header = [present |-> TRUE, value |-> <<"Bearer", " ", "tGone">>]
  /\ req.dbOk
  /\ res.status = 401

\* the payload misses a required field or names a category or a language
\* outside the enumerated sets
BadCreatePayload(body) ==
  \/ RequiredFields \ DOMAIN body # {}
  \/ "category" \in DOMAIN body /\ body.category \notin Categories
  \/ "language" \in DOMAIN body /\ body.language \notin Languages

BodyRead == req.body # NoBodyRead

C7_RoundTrip ==
  /\ \A id \in DOMAIN created : id \in DOMAIN articles /\ articles[id] = created[id]
  /\ (pc = "done" /\ req.route = "getArticle" /\ req.dbOk /\ req.id \in DOMAIN created) =>
        /\ res.status = 200
        /\ res.body.data.article = created[req.id]

C7_Witness ==
  /\ pc = "done"
  /\ req.route = "getArticle"
  /\ req.id \in DOMAIN created
  /\ res.status = 200
  /\ res.body.data.article.title = <<"b">>
  /\ Cardinality(DOMAIN articles) = 2

DeleteRan == \E i \in 1..Len(trace) : trace[i].stage = "deleteArticle"

\* C8: a delete by an identifier that is not in the store ends in 404 and
\* changes nothing; a delete by an identifier that is in the store removes
\* that record and no other and ends in 204 without a body; an identifier
\* once removed never comes back, so a later delete of it ends in 404
C8_DeleteOutcome ==
  (pc = "done" /\ req.route = "deleteArticle" /\ DeleteRan /\ req.dbOk) =>
     /\ contacts = pre.contacts
     /\ IF req.id \in DOMAIN pre.articles
        THEN /\ res = [status |-> 204, body |-> NoBody]
             /\ articles = Restrict(pre.articles, (DOMAIN pre.articles) \ {req.id})
        ELSE /\ res.status = 404
             /\ articles = pre.articles

C8_GoneForGood ==
  \A id \in 1..(nextId - 1) : id \notin DOMAIN articles => id \notin DOMAIN articles'

C8_Delete == []C8_DeleteOutcome /\ [][C8_GoneForGood]_vars

C8_Witness ==
  /\ pc = "done"
  /\ req.route = "deleteArticle"
  /\ res.status = 204
  /\ Cardinality(DOMAIN pre.articles) = 2
  /\ Cardinality(DOMAIN articles) = 1

ContactRan == \E i \in 1..Len(trace) : trace[i].stage \in {"contactCreate", "contactSave"}

\* C9: a POST /contact with name, email, subject and message, whichever
\* router serves it and with the store reachable, ends in 201 with a message
\* and adds exactly one contact message carrying the four submitted values
C9_ContactCreated ==
  (pc = "done" /\ req.route = "postContact" /\ ContactRan /\ req.dbOk
     /\ ContactFields \subseteq DOMAIN req.body) =>
     /\ res.status = 201
     /\ "message" \in DOMAIN res.body
     /\ Len(contacts) = Len(pre.contacts) + 1
     /\ SubSeq(contacts, 1, Len(pre.contacts)) = pre.contacts
     /\ \A f \in ContactFields : contacts[Len(contacts)][f] = req.body[f]
     /\ articles = pre.articles

C9_Witness ==
  /\ pc = "done"
  /\ trace = <<[stage |-> "contactSave", out |-> "respond"]>>
  /\ req.body = ContactPayload
  /\ res.status = 201
  /\ Len(contacts) = 1

\* C10: a POST /contact whose payload violates the Contact schema ends in 400
\* on every contact router and stores nothing; 500 is the answer to a failure
\* of the store only
C10_ContactValidation400 ==
  (pc = "done" /\ req.route = "postContact" /\ ContactRan) =>
     /\ ContactFields \ DOMAIN req.body # {} =>
           res.status = 400 /\ contacts = pre.contacts
     /\ res.status = 500 => ~req.dbOk

\* the request in flight ended in a failure response
Failed == pc = "done" /\ res.status >= 400

\* the messages the libraries put on their own exceptions
InternalMessages ==
  { MongoNetworkError.message, ValidationError.message,
    "jwt malformed", "invalid signature", "jwt expired" }

\* C11: whatever the route and the failure, no field of a failure response
\* carries the message of the exception a library raised (the text of a
\* connection error, of a validation error, of a token error)
C11_NoInternalDetail ==
  Failed => \A f \in DOMAIN res.body : res.body[f] \notin InternalMessages

\* C12: every failure response, on every route, is the body of the error
\* stage, a status of "error" or "fail" with a message, and was sent by that
\* stage and by no handler
C12_OneErrorShape ==
  Failed =>
     /\ DOMAIN res.body = {"status", "message"}
     /\ res.body.status \in {"error", "fail"}
     /\ trace[Len(trace)].stage = "error"

\* the request in flight is a completed call of one controller with the store reachable
Served(route) == pc = "done" /\ req.route = route /\ HandlerReached /\ req.dbOk

\* C13: GET /articles/:id answers 200 with the stored record when a record
\* has the identifier and 404 exactly when none has, and the records are the
\* same after as before in both cases
C13_GetById ==
  Served("getArticle") =>
     /\ StoreUnchanged
     /\ req.id \in DOMAIN pre.articles =>
           res.status = 200 /\ res.body.data.article = pre.articles[req.id]
     /\ req.id \notin DOMAIN pre.articles => res.status = 404
     /\ res.status \in {200, 404}

C13_Witness ==
  /\ Served("getArticle")
  /\ Cardinality(DOMAIN articles) = 1
  /\ req.id \notin DOMAIN articles
  /\ res.status = 404

\* the paths of the schema a body supplies, as the schema casts them
Supplied(body) == CastArticle(body)

\* every supplied path passes its validators
ValidUpdate(body) == \A f \in DOMAIN Supplied(body) : PathValid(f, Supplied(body)[f])

\* C14: PATCH /articles/:id ends in 404 and changes nothing when no record
\* has the identifier; when one has and the partial payload is valid, the
\* stored record is the old one with the supplied fields overwritten and the
\* others kept, and the answer is 200 with the record as it is after
C14_UpdateById ==
  Served("updateArticle") =>
     /\ req.id \notin DOMAIN pre.articles => res.status = 404 /\ StoreUnchanged
     /\ (req.id \in DOMAIN pre.articles /\ ValidUpdate(req.body)) =>
           /\ res.status = 200
           /\ DOMAIN articles = DOMAIN pre.articles
           /\ \A f \in DOMAIN Supplied(req.body) : articles[req.id][f] = Supplied(req.body)[f]
           /\ \A f \in (DOMAIN pre.articles[req.id]) \ DOMAIN Supplied(req.body) :
                 articles[req.id][f] = pre.articles[req.id][f]
           /\ DOMAIN articles[req.id] = (DOMAIN pre.articles[req.id]) \cup DOMAIN Supplied(req.body)
           /\ \A other \in (DOMAIN articles) \ {req.id} : articles[other] = pre.articles[other]
           /\ res.body.data.article = articles[req.id]

\* C14, amended: the payload is validated before the lookup. PATCH
\* /articles/:id with a valid partial payload ends in 404 and changes nothing
\* when no record has the identifier, and when one has, the stored record is
\* the old one with the supplied fields overwritten and the others kept, the
\* answer being 200 with the record as it is after; with an invalid payload
\* it ends in neither 404 nor 200 and changes nothing, whether or not a
\* record has the identifier
C14_UpdateValidatedFirst ==
  Served("updateArticle") =>
     /\ ~ValidUpdate(req.body) => res.status \notin {200, 404} /\ StoreUnchanged
     /\ (req.id \notin DOMAIN pre.articles /\ ValidUpdate(req.body)) =>
           res.status = 404 /\ StoreUnchanged
     /\ (req.id \in DOMAIN pre.articles /\ ValidUpdate(req.body)) =>
           /\ res.status = 200
           /\ DOMAIN articles = DOMAIN pre.articles
           /\ DOMAIN articles[req.id] = (DOMAIN pre.articles[req.id]) \cup DOMAIN Supplied(req.body)
           /\ \A f \in DOMAIN Supplied(req.body) : articles[req.id][f] = Supplied(req.body)[f]
           /\ \A f \in (DOMAIN pre.articles[req.id]) \ DOMAIN Supplied(req.body) :
                 articles[req.id][f] = pre.articles[req.id][f]
           /\ \A other \in (DOMAIN articles) \ {req.id} : articles[other] = pre.articles[other]
           /\ res.body.data.article = articles[req.id]

C14_Witness ==
  /\ Served("updateArticle")
  /\ req.id \in DOMAIN pre.articles
  /\ req.body = [category |-> "Hygiene", role |-> "admin"]
  /\ pre.articles[req.id].category = "Nutrition"
  /\ pre.articles[req.id].title = <<"b">>
  /\ res.status = 200
  /\ res.body.data.article.category = "Hygiene"

Listed == res.body.data.articles

\* C16: GET /articles with the store reachable ends in 200 whatever the store
\* holds, nothing included: the records come latest creation first and the
\* count of the response is the number of records it carries
C16_ListOrdered ==
  Served("getAllArticles") =>
     /\ res.status = 200
     /\ res.body.status = "success"
     /\ res.body.results = Len(Listed)
     /\ \A i, j \in 1..Len(Listed) : i < j => Listed[i].createdAt >= Listed[j].createdAt
     /\ StoreUnchanged

C16_Witness ==
  /\ Served("getAllArticles")
  /\ res.body.results = 2
  /\ Listed[1].createdAt > Listed[2].createdAt
  /\ Listed[1]._id = 2

\* a query names a value for the field: the parameter is there and not empty
Asked(query, f) == f \in DOMAIN query /\ query[f] # ""

\* the record has the category and the language the query names
Wanted(query, doc) ==
  /\ Asked(query, "category") => doc.category = query.category
  /\ Asked(query, "language") => doc.language = query.language

\* C17: GET /articles returns each stored record whose category and language
\* equal the values the query names, once and as stored, and no other; a
\* parameter that is absent or empty restricts nothing
C17_ListFiltered ==
  Served("getAllArticles") =>
     /\ \A i \in 1..Len(Listed) :
           /\ Listed[i]._id \in DOMAIN pre.articles
           /\ Listed[i] = pre.articles[Listed[i]._id]
           /\ Wanted(req.query, Listed[i])
     /\ \A id \in DOMAIN pre.articles :
           Wanted(req.query, pre.articles[id]) => \E i \in 1..Len(Listed) : Listed[i]._id = id
     /\ \A i, j \in 1..Len(Listed) : Listed[i]._id = Listed[j]._id => i = j

C17_Witness ==
  /\ Served("getAllArticles")
  /\ req.query = [category |-> "Hygiene", language |-> "English"]
  /\ Cardinality(DOMAIN articles) = 2
  /\ res.body.results = 1
  /\ Listed[1].category = "Hygiene"

C19_AuthFrame ==
  [][Stage = "auth" =>
       /\ UNCHANGED <<users, articles, contacts, nextId, now>>
       /\ res' = res
       /\ req' = [req EXCEPT !.user = req'.user, !.dbOk = req'.dbOk]
       /\ pc' \in {"run", "error"}
       /\ pc' = "run" <=> req'.user # NoUser
       /\ pc' = "run" =>
             /\ HasBearerToken(req.header)
             /\ JwtClaims(BearerToken(req.header)[1]).id \in DOMAIN users
             /\ req'.user = users[JwtClaims(BearerToken(req.header)[1]).id]]_vars

C19_Witness ==
  /\ pc = "run"
  /\ trace = <<[stage |-> "auth", out |-> "next"]>>
  /\ req.user = users["u2"]
  /\ DOMAIN articles # {}
  /\ contacts # <<>>

\* the positions of the trace at which the stage ran
Runs(stage) == {i \in 1..Len(trace) : trace[i].stage = stage}

\* C20: a request ends one way only. No stage runs twice and a stage hands on
\* with next() or with next(err), never after the other; a request that ends
\* in a failure response had its failure handed to the error stage, which
\* ran once and last; and a request on which an error was raised does not
\* end in a success response
C20_OneOutcome ==
  /\ \A i, j \in 1..Len(trace) : trace[i].stage = trace[j].stage => i = j
  /\ \A i \in 1..Len(trace) :
        /\ trace[i].out = "respond" => i = Len(trace)
        /\ (trace[i].out = "error" /\ i < Len(trace)) =>
              i + 1 = Len(trace) /\ trace[i + 1].out = "respond"
  /\ Failed => Runs("error") = {Len(trace)} /\ Len(trace) >= 2
                 /\ trace[Len(trace) - 1].out = "error"
  /\ (pc = "done" /\ err # NoErr) => res.status >= 400


\* the concurrent requests whose findByIdAndDelete on the identifier has been
\* run by the store
Ran(id) ==
  {p \in Procs : req[p].id = id /\ req[p].dbOk
                   /\ \E i \in 1..Len(trace[p]) : trace[p][i].stage = "deleteArticle"}

\* those of them the store gave the document to: they were answered 204
Won(id) == {p \in Ran(id) : res[p].status = 204}

\* C21: of the concurrent deletes of one identifier that a record had when
\* they arrived, in every interleaving exactly one is answered 204 and every
\* other one 404; the record is gone from the first of them on, and every
\* record no delete was run on is there as it was
C21_ConcurrentDelete ==
  /\ DOMAIN articles \subseteq DOMAIN pre.articles
  /\ \A id \in DOMAIN pre.articles :
        IF Ran(id) = {}
        THEN id \in DOMAIN articles /\ articles[id] = pre.articles[id]
        ELSE /\ id \notin DOMAIN articles
             /\ Cardinality(Won(id)) = 1
             /\ \A p \in Ran(id) \ Won(id) :
                   /\ err[p] = NotFound
                   /\ pc[p] = "done" => res[p].status = 404

C21_Witness ==
  /\ \A p \in Procs : pc[p] = "done" /\ req[p].id = 1
  /\ Ran(1) = Procs
  /\ Cardinality(Won(1)) = 1
  /\ \A p \in Procs \ Won(1) : res[p].status = 404
  /\ DOMAIN articles = {2}

====
